---- MODULE Spec2Model ----
(***************************************************************************)
(* Model of the Harper language-server extension (src/src/lib.rs):         *)
(* binary resolution (get_binary), installation (install_binary) and the   *)
(* three Extension handlers.  Every handler is one atomic action; the      *)
(* host's answers (settings lookup, which, release query, download,        *)
(* chmod and deletion outcomes) are inputs drawn per call.                 *)
(***************************************************************************)
EXTENDS Naturals, Sequences, FiniteSets, TLC

VARIABLES
    binary_cache,   \* HarperExtension.binary_cache : Option<PathBuf>
    disk,           \* the extension's working directory: entry name -> state
    platform,       \* zed::current_platform().0, fixed for the process
    arch,           \* zed::current_platform().1, fixed for the process
    last,           \* the call whose result the host has not taken yet (history)
    prior_install,  \* the latest successful install_binary run (history)
    runs            \* the install_binary runs in progress at the same time

vars == <<binary_cache, disk, platform, arch, last, prior_install, runs>>

----------------------------------------------------------------------------
(* Option<T>: None is the empty tuple, Some(x) the one-element tuple.       *)
None == <<>>
Some(x) == <<x>>
IsSome(o) == o # <<>>
Unwrap(o) == o[1]

----------------------------------------------------------------------------
(* Bounds and input domains.                                                *)
NumVersions == 2

NAME == "harper-ls"

VersionStr(i) == "v1." \o ToString(i + 1) \o ".0"
Versions == {VersionStr(i) : i \in 1..NumVersions}

OSes == {"Mac", "Linux", "Windows"}
Archs == {"Aarch64", "X8664", "X86"}

\* states of one version-scoped directory, seen from the binary path of the
\* process's platform: no directory; a directory without the binary; the
\* binary extracted but not executable; the binary executable.
DirStates == {"absent", "partial", "binary", "exec"}

\* worktree.shell_env(): ordered (name, value) pairs
ShellEnvs == {<< <<"PATH", "/usr/bin">>, <<"HOME", "/home/user">> >>}

\* worktree.which(NAME)
WhichResults == {None, Some("/usr/bin/harper-ls")}

\* binary.arguments of the host settings
ArgLists == {None, Some(<<>>), Some(<<"--stdio", "--verbose">>)}

\* JSON values of the host settings' initialization_options / settings
JsonValues == {[dialect |-> "American"]}

Stdio == <<"--stdio">>

\* LspSettings::for_worktree(..): None when the lookup fails, otherwise
\* Some(LspSettings) with the three fields the extension reads.
LspSettings(binary, initialization_options, settings) ==
    [binary |-> binary,
     initialization_options |-> initialization_options,
     settings |-> settings]

CommandSettings(path, arguments) == [path |-> path, arguments |-> arguments]

ConfiguredPath == "/usr/local/bin/harper-ls"

\* settings lookups offered to language_server_command (only .binary is read)
BinaryLookups ==
    {None,
     Some(LspSettings(None, None, None)),
     Some(LspSettings(Some(CommandSettings(None, Some(<<"--stdio", "--verbose">>))),
                      None, None))}
    \cup {Some(LspSettings(Some(CommandSettings(Some(ConfiguredPath), a)), None, None)) :
            a \in ArgLists}

\* settings lookups offered to the two passthrough handlers
OptionLookups ==
    {None}
    \cup {Some(LspSettings(None, io, st)) :
            io \in {None} \cup {Some(j) : j \in JsonValues},
            st \in {None} \cup {Some(j) : j \in JsonValues}}

----------------------------------------------------------------------------
(* Platform mapping and naming (install_binary, lines 81-106).              *)
ArchName(ar) == IF ar = "Aarch64" THEN "aarch64" ELSE "x86_64"

OsStr(os) ==
    CASE os = "Mac" -> "apple-darwin"
      [] os = "Linux" -> "unknown-linux-gnu"
      [] os = "Windows" -> "pc-windows-msvc"

FileExt(os) == IF os = "Windows" THEN "zip" ELSE "tar.gz"

\* variant: every asset is taken to be a tar.gz archive
AssetName_TarGz(ar, os) ==
    NAME \o "-" \o ArchName(ar) \o "-" \o OsStr(os) \o ".tar.gz"

AssetName(ar, os) ==
    NAME \o "-" \o ArchName(ar) \o "-" \o OsStr(os) \o "." \o FileExt(os)

VersionDir(version) == NAME \o "-" \o version

BinaryPath(version, os) ==
    VersionDir(version) \o "/" \o NAME \o (IF os = "Windows" THEN ".exe" ELSE "")

VersionDirs == {VersionDir(v) : v \in Versions}

\* release asset lists offered by the release service
AllAssets == {AssetName(ar, os) : ar \in {"Aarch64", "X8664"}, os \in OSes}
NearMissAssets ==
    {"harper-ls-x86_64-unknown-linux-musl.tar.gz",
     "harper-ls-aarch64-apple-darwin.zip",
     "harper-ls-x86_64-pc-windows-msvc.tar.gz"}
AssetLists == {AllAssets, NearMissAssets}

\* zed::latest_github_release(..): None when the query fails
ReleaseResults ==
    {None} \cup {Some([version |-> v, assets |-> al]) : v \in Versions, al \in AssetLists}

\* zed::download_file(..): extracted in full; failed leaving nothing new;
\* failed leaving a partly extracted directory
DownloadOutcomes == {"ok", "fail_clean", "fail_partial"}

----------------------------------------------------------------------------
(* The file system under the extension's working directory.                 *)
EmptyDisk == [e \in VersionDirs |-> "absent"]

\* Path::exists() for a binary path of this platform
PathExists(d, path, os) ==
    \E v \in Versions : path = BinaryPath(v, os) /\ d[VersionDir(v)] \in {"binary", "exec"}

\* entries fs::read_dir(".") lists
Entries(d) == {e \in DOMAIN d : d[e] # "absent"}

DownloadFile(d, version_dir, dl) ==
    CASE dl = "ok" -> [d EXCEPT ![version_dir] = "binary"]
      [] dl = "fail_partial" ->
            [d EXCEPT ![version_dir] = IF @ = "absent" THEN "partial" ELSE @]
      [] OTHER -> d

MakeFileExecutable(d, version_dir, mx) ==
    IF mx /\ d[version_dir] \in {"binary", "exec"}
    THEN [d EXCEPT ![version_dir] = "exec"]
    ELSE d

\* fs::remove_dir_all(entry).ok(): a failing deletion leaves the entry as it is
RemoveDirAll(d, entry, undeletable) ==
    IF entry \in undeletable THEN d ELSE [d EXCEPT ![entry] = "absent"]

\* variant: the loop does not skip the new version's directory
CleanupTargets_All(d, version_dir) == Entries(d)

\* the read_dir loop of lines 137-145: every entry not named version_dir
\* (a failing read_dir, or an entry the loop skips, is an entry not deleted)
CleanupTargets(d, version_dir) == {e \in Entries(d) : e # version_dir}

\* variant: the loop deletes nothing
CleanupStale_KeepAll(d, version_dir, undeletable) == d

CleanupStale(d, version_dir, undeletable) ==
    [e \in DOMAIN d |->
        IF e \in CleanupTargets(d, version_dir)
        THEN RemoveDirAll(d, e, undeletable)[e]
        ELSE d[e]]

----------------------------------------------------------------------------
(* HarperBinary and the outcome of one get_binary / install_binary run.     *)
HarperBinary(path, args, env) == [path |-> path, args |-> args, env |-> env]

Has(events, e) == \E i \in DOMAIN events : events[i] = e

\* what a run returned and did: the Result (binary or err), the cache and the
\* disk it leaves, the host calls it issued in order, the deletions it
\* attempted and those of them that failed
Outcome(tier, binary, err, cache, d, events, attempted, failed) ==
    [tier |-> tier, binary |-> binary, err |-> err, cache |-> cache, disk |-> d,
     events |-> events, attempted |-> attempted, failed |-> failed]

\* variant: the path is not remembered
RecordInstalled_Forget(cache, binary_path) == cache

\* line 148: the new binary path is remembered
RecordInstalled(cache, binary_path) == Some(binary_path)

\* variant: the existence check is dropped and every run downloads
NeedsDownload_Always(d, binary_path, os) == TRUE

\* line 108: the download branch is taken when the binary path does not exist
NeedsDownload(d, binary_path, os) == ~PathExists(d, binary_path, os)

\* variant: the download is started without the status
DownloadingEvents_Silent == <<"download_file">>

\* lines 109-124: the Downloading status, then download_file
DownloadingEvents == <<"Downloading", "download_file">>

\* variant: the stale versions are removed in the skip branch as well
InstallBinary_CleanupOnSkip(cache, d, os, ar, rel, dl, mx, undeletable) ==
    LET checking == <<"CheckingForUpdate", "latest_github_release">>
        Err(msg, d1, events, attempted) ==
            Outcome("install", None, msg, cache, d1, events, attempted,
                    attempted \cap undeletable)
        Ok(binary_path, d1, events, attempted) ==
            Outcome("install", Some(HarperBinary(binary_path, None, None)), "",
                    RecordInstalled(cache, binary_path), d1, events, attempted,
                    attempted \cap undeletable)
    IN
    IF rel = None THEN Err("Failed to fetch latest release", d, checking, {})
    ELSE IF ar = "X86" THEN Err("x86 architecture is not supported", d, checking, {})
    ELSE
    LET release == Unwrap(rel)
        asset_name == AssetName(ar, os)
    IN
    IF asset_name \notin release.assets
    THEN Err("No compatible Harper binary found for " \o ArchName(ar) \o "-" \o OsStr(os),
             d, checking, {})
    ELSE
    LET version_dir == VersionDir(release.version)
        binary_path == BinaryPath(release.version, os)
    IN
    IF ~NeedsDownload(d, binary_path, os)
    THEN Ok(binary_path, CleanupStale(d, version_dir, undeletable),
            checking \o <<"read_dir">>, CleanupTargets(d, version_dir))
    ELSE
    LET downloading == checking \o DownloadingEvents
        d1 == DownloadFile(d, version_dir, dl)
    IN
    IF dl # "ok"
    THEN Err("Failed to download Harper binary",
             RemoveDirAll(d1, version_dir, undeletable),
             downloading \o <<"remove_dir_all">>, {version_dir} \cap Entries(d1))
    ELSE
    LET chmod == downloading \o <<"make_file_executable">>
        d2 == MakeFileExecutable(d1, version_dir, mx)
    IN
    IF ~mx
    THEN Err("Failed to make binary executable",
             RemoveDirAll(d2, version_dir, undeletable),
             chmod \o <<"remove_dir_all">>, {version_dir} \cap Entries(d2))
    ELSE Ok(binary_path, CleanupStale(d2, version_dir, undeletable),
            chmod \o <<"read_dir">>, CleanupTargets(d2, version_dir))

\* lines 63-155
InstallBinary(cache, d, os, ar, rel, dl, mx, undeletable) ==
    LET checking == <<"CheckingForUpdate", "latest_github_release">>
        Err(msg, d1, events, attempted) ==
            Outcome("install", None, msg, cache, d1, events, attempted,
                    attempted \cap undeletable)
        Ok(binary_path, d1, events, attempted) ==
            Outcome("install", Some(HarperBinary(binary_path, None, None)), "",
                    RecordInstalled(cache, binary_path), d1, events, attempted,
                    attempted \cap undeletable)
    IN
    IF rel = None THEN Err("Failed to fetch latest release", d, checking, {})
    ELSE IF ar = "X86" THEN Err("x86 architecture is not supported", d, checking, {})
    ELSE
    LET release == Unwrap(rel)
        asset_name == AssetName(ar, os)
    IN
    IF asset_name \notin release.assets
    THEN Err("No compatible Harper binary found for " \o ArchName(ar) \o "-" \o OsStr(os),
             d, checking, {})
    ELSE
    LET version_dir == VersionDir(release.version)
        binary_path == BinaryPath(release.version, os)
    IN
    IF ~NeedsDownload(d, binary_path, os)
    THEN Ok(binary_path, d, checking, {})
    ELSE
    LET downloading == checking \o DownloadingEvents
        d1 == DownloadFile(d, version_dir, dl)
    IN
    IF dl # "ok"
    THEN Err("Failed to download Harper binary",
             RemoveDirAll(d1, version_dir, undeletable),
             downloading \o <<"remove_dir_all">>, {version_dir} \cap Entries(d1))
    ELSE
    LET chmod == downloading \o <<"make_file_executable">>
        d2 == MakeFileExecutable(d1, version_dir, mx)
    IN
    IF ~mx
    THEN Err("Failed to make binary executable",
             RemoveDirAll(d2, version_dir, undeletable),
             chmod \o <<"remove_dir_all">>, {version_dir} \cap Entries(d2))
    ELSE Ok(binary_path, CleanupStale(d2, version_dir, undeletable),
            chmod \o <<"read_dir">>, CleanupTargets(d2, version_dir))

\* variant: a binary section without a path counts as an empty path
ConfiguredBinary_DefaultPath(lookup) ==
    IF lookup = None THEN None
    ELSE IF Unwrap(lookup).binary = None THEN None
    ELSE Some([path |-> IF Unwrap(Unwrap(lookup).binary).path = None THEN ""
                        ELSE Unwrap(Unwrap(Unwrap(lookup).binary).path),
               args |-> Unwrap(Unwrap(lookup).binary).arguments])

\* lines 29-32: the (path, arguments) pair of the settings, if a path is set
ConfiguredBinary(lookup) ==
    IF lookup = None THEN None
    ELSE IF Unwrap(lookup).binary = None THEN None
    ELSE IF Unwrap(Unwrap(lookup).binary).path = None THEN None
    ELSE Some([path |-> Unwrap(Unwrap(Unwrap(lookup).binary).path),
               args |-> Unwrap(Unwrap(lookup).binary).arguments])

\* variant: the cached path is used without the existence re-check
CacheHit_NoRecheck(cache, d, os) == IsSome(cache)

\* lines 50-52: the cache is set and its path still exists
CacheHit(cache, d, os) == IsSome(cache) /\ PathExists(d, Unwrap(cache), os)

\* variant: the PATH lookup is tried before the configured path
GetBinary_WhichFirst(cache, d, os, ar, lookup, which, shell_env, rel, dl, mx, undeletable) ==
    LET binary == ConfiguredBinary(lookup) IN
    IF IsSome(which)
    THEN Outcome("path", Some(HarperBinary(Unwrap(which), None, Some(shell_env))),
                 "", cache, d, <<>>, {}, {})
    ELSE IF IsSome(binary)
    THEN Outcome("config",
                 Some(HarperBinary(Unwrap(binary).path, Unwrap(binary).args, Some(shell_env))),
                 "", cache, d, <<>>, {}, {})
    ELSE IF CacheHit(cache, d, os)
    THEN Outcome("cache", Some(HarperBinary(Unwrap(cache), None, None)),
                 "", cache, d, <<>>, {}, {})
    ELSE InstallBinary(cache, d, os, ar, rel, dl, mx, undeletable)

\* variant: the PATH tier remembers the binary it found
GetBinary_CachesWhich(cache, d, os, ar, lookup, which, shell_env, rel, dl, mx, undeletable) ==
    LET binary == ConfiguredBinary(lookup) IN
    IF IsSome(binary)
    THEN Outcome("config",
                 Some(HarperBinary(Unwrap(binary).path, Unwrap(binary).args, Some(shell_env))),
                 "", cache, d, <<>>, {}, {})
    ELSE IF IsSome(which)
    THEN Outcome("path", Some(HarperBinary(Unwrap(which), None, Some(shell_env))),
                 "", Some(Unwrap(which)), d, <<>>, {}, {})
    ELSE IF CacheHit(cache, d, os)
    THEN Outcome("cache", Some(HarperBinary(Unwrap(cache), None, None)),
                 "", cache, d, <<>>, {}, {})
    ELSE InstallBinary(cache, d, os, ar, rel, dl, mx, undeletable)

\* lines 24-61
GetBinary(cache, d, os, ar, lookup, which, shell_env, rel, dl, mx, undeletable) ==
    LET binary == ConfiguredBinary(lookup) IN
    IF IsSome(binary)
    THEN Outcome("config",
                 Some(HarperBinary(Unwrap(binary).path, Unwrap(binary).args, Some(shell_env))),
                 "", cache, d, <<>>, {}, {})
    ELSE IF IsSome(which)
    THEN Outcome("path", Some(HarperBinary(Unwrap(which), None, Some(shell_env))),
                 "", cache, d, <<>>, {}, {})
    ELSE IF CacheHit(cache, d, os)
    THEN Outcome("cache", Some(HarperBinary(Unwrap(cache), None, None)),
                 "", cache, d, <<>>, {}, {})
    ELSE InstallBinary(cache, d, os, ar, rel, dl, mx, undeletable)

\* variant: missing arguments become an empty list
CommandOf_NoDefault(binary) ==
    [command |-> binary.path,
     args |-> IF IsSome(binary.args) THEN Unwrap(binary.args) ELSE <<>>,
     env |-> IF IsSome(binary.env) THEN Unwrap(binary.env) ELSE <<>>]

\* lines 168-177: the Command built from a resolved binary
CommandOf(binary) ==
    [command |-> binary.path,
     args |-> IF IsSome(binary.args) THEN Unwrap(binary.args) ELSE Stdio,
     env |-> IF IsSome(binary.env) THEN Unwrap(binary.env) ELSE <<>>]

\* lines 185-189
InitializationOptions(lookup) ==
    IF lookup = None THEN None ELSE Unwrap(lookup).initialization_options

DefaultWorkspaceSettings == (NAME :> <<>>)

\* variant: missing settings are forwarded without the default
WorkspaceConfiguration_NoDefault(lookup) ==
    IF lookup = None THEN None ELSE Unwrap(lookup).settings

\* lines 197-206
WorkspaceConfiguration(lookup) ==
    IF lookup = None THEN None
    ELSE IF IsSome(Unwrap(lookup).settings) THEN Unwrap(lookup).settings
    ELSE Some(DefaultWorkspaceSettings)

----------------------------------------------------------------------------
(* The record kept of the call the host has made and not yet taken the      *)
(* result of: its inputs, the state it started from, what get_binary did    *)
(* and what the handler returned.                                           *)
CallRecord(op, lookup, which, shell_env, rel, dl, mx, out, command, value) ==
    [op |-> op, lookup |-> lookup, which |-> which, shell_env |-> shell_env,
     cache0 |-> binary_cache, disk0 |-> disk, prior0 |-> prior_install,
     release |-> rel, dl |-> dl, mx |-> mx,
     out |-> out, command |-> command, value |-> value]

NoOutcome == Outcome("none", None, "", None, EmptyDisk, <<>>, {}, {})

\* no call in progress
Idle ==
    [op |-> "none", lookup |-> None, which |-> None, shell_env |-> <<>>,
     cache0 |-> None, disk0 |-> EmptyDisk, prior0 |-> None,
     release |-> None, dl |-> "fail_clean", mx |-> FALSE,
     out |-> NoOutcome, command |-> None, value |-> None]

\* History of installs: the release and path of the latest install_binary run
\* that returned success, whether the extension instance is still the one
\* that ran it, and whether the disk is as that run left it.
PriorAfterRun(prior, rel, out, d) ==
    IF out.tier = "install" /\ IsSome(out.binary)
    THEN Some([release |-> Unwrap(rel), path |-> Unwrap(out.binary).path,
               same_instance |-> TRUE, untouched |-> TRUE])
    ELSE IF prior = None THEN None
    ELSE Some([Unwrap(prior) EXCEPT !.untouched = @ /\ out.disk = d])

Init ==
    /\ binary_cache = None          \* HarperExtension::new, line 21
    /\ disk = EmptyDisk
    /\ platform \in OSes
    /\ arch \in Archs
    /\ last = Idle
    /\ prior_install = None
    /\ runs = None                  \* calls are made one at a time

\* variant: the new instance inherits the cache of the old one
New_KeepsCache ==
    /\ last = Idle
    /\ binary_cache' = binary_cache
    /\ prior_install' = IF prior_install = None THEN None
                        ELSE Some([Unwrap(prior_install) EXCEPT !.same_instance = FALSE])
    /\ UNCHANGED <<disk, platform, arch, last, runs>>

\* Extension::new (lines 159-161): the host creates a fresh instance over the
\* same working directory
New ==
    /\ last = Idle
    /\ binary_cache' = None
    /\ prior_install' = IF prior_install = None THEN None
                        ELSE Some([Unwrap(prior_install) EXCEPT !.same_instance = FALSE])
    /\ UNCHANGED <<disk, platform, arch, last, runs>>

\* language_server_command (lines 163-178), get_binary and install_binary
\* included.  An input the run does not read keeps its default value.
LanguageServerCommand ==
    /\ last = Idle
    /\ \E lookup \in BinaryLookups, which \in WhichResults, shell_env \in ShellEnvs :
         LET Run(rel, dl, mx, undeletable) ==
                 GetBinary(binary_cache, disk, platform, arch, lookup, which, shell_env,
                           rel, dl, mx, undeletable)
         IN
         \E rel \in IF Run(None, "ok", TRUE, {}).tier = "install"
                    THEN ReleaseResults ELSE {None} :
         \E dl \in IF Has(Run(rel, "ok", TRUE, {}).events, "download_file")
                   THEN DownloadOutcomes ELSE {"fail_clean"} :
         \E mx \in IF Has(Run(rel, dl, TRUE, {}).events, "make_file_executable")
                   THEN BOOLEAN ELSE {FALSE} :
         \E undeletable \in SUBSET Run(rel, dl, mx, {}).attempted :
           LET out == Run(rel, dl, mx, undeletable) IN
           /\ binary_cache' = out.cache
           /\ disk' = out.disk
           /\ last' = CallRecord("language_server_command", lookup, which, shell_env,
                                 rel, dl, mx, out,
                                 IF IsSome(out.binary)
                                 THEN Some(CommandOf(Unwrap(out.binary))) ELSE None,
                                 None)
           /\ prior_install' = PriorAfterRun(prior_install, rel, out, disk)
           /\ UNCHANGED <<platform, arch, runs>>

\* language_server_initialization_options (lines 180-190)
LanguageServerInitializationOptions ==
    /\ last = Idle
    /\ \E lookup \in OptionLookups :
        /\ last' = CallRecord("language_server_initialization_options", lookup, None,
                              <<>>, None, "fail_clean", FALSE, NoOutcome, None,
                              Some(InitializationOptions(lookup)))
        /\ UNCHANGED <<binary_cache, disk, platform, arch, prior_install, runs>>

\* language_server_workspace_configuration (lines 192-207)
LanguageServerWorkspaceConfiguration ==
    /\ last = Idle
    /\ \E lookup \in OptionLookups :
        /\ last' = CallRecord("language_server_workspace_configuration", lookup, None,
                              <<>>, None, "fail_clean", FALSE, NoOutcome, None,
                              Some(WorkspaceConfiguration(lookup)))
        /\ UNCHANGED <<binary_cache, disk, platform, arch, prior_install, runs>>

\* the host takes the handler's return value; calls are made one at a time
HostTakesResult ==
    /\ last # Idle
    /\ last' = Idle
    /\ UNCHANGED <<binary_cache, disk, platform, arch, prior_install, runs>>

\* the user or another process deletes an install directory between calls
\* (the case the existence re-check of line 51 guards against)
ExternalDelete ==
    /\ last = Idle
    /\ \E e \in Entries(disk) :
        /\ disk' = [disk EXCEPT ![e] = "absent"]
        /\ prior_install' = IF prior_install = None THEN None
                            ELSE Some([Unwrap(prior_install) EXCEPT !.untouched = FALSE])
        /\ UNCHANGED <<binary_cache, platform, arch, last, runs>>

Next ==
    \/ New
    \/ LanguageServerCommand
    \/ LanguageServerInitializationOptions
    \/ LanguageServerWorkspaceConfiguration
    \/ HostTakesResult
    \/ ExternalDelete

Spec == Init /\ [][Next]_vars

----------------------------------------------------------------------------
(* Two install_binary runs for the same release at the same time (two       *)
(* extension instances over one working directory), interleaved at the      *)
(* steps of lines 108-146.  Both have passed the release query and the      *)
(* asset selection; each step's outcome is drawn when the step is taken.    *)
Runs == {"A", "B"}

RunState(pc, result, path, cache) ==
    [pc |-> pc, result |-> result, path |-> path, cache |-> cache]

RunVersionDir == VersionDir(runs.version)
RunBinaryPath == BinaryPath(runs.version, platform)

Step(r, pc, result, path, cache) ==
    runs' = [runs EXCEPT !.of[r] = RunState(pc, result, path, cache)]

InitConc ==
    /\ binary_cache = None
    /\ disk \in [VersionDirs -> DirStates]
    /\ platform \in OSes
    /\ arch \in {"Aarch64", "X8664"}
    /\ last = Idle
    /\ prior_install = None
    /\ runs \in {[version |-> v,
                   of |-> [r \in Runs |-> RunState("check", "none", None, None)]] :
                    v \in Versions}

\* line 108, and lines 148-154 when the binary is already there
ConcCheck(r) ==
    /\ runs.of[r].pc = "check"
    /\ IF NeedsDownload(disk, RunBinaryPath, platform)
       THEN Step(r, "download", "none", None, None)
       ELSE Step(r, "done", "ok", Some(RunBinaryPath),
                 RecordInstalled(None, RunBinaryPath))
    /\ UNCHANGED <<binary_cache, disk, platform, arch, last, prior_install>>

\* lines 109-124
ConcDownload(r) ==
    /\ runs.of[r].pc = "download"
    /\ \E dl \in DownloadOutcomes :
        /\ disk' = DownloadFile(disk, RunVersionDir, dl)
        /\ Step(r, IF dl = "ok" THEN "chmod" ELSE "rollback", "none", None, None)
    /\ UNCHANGED <<binary_cache, platform, arch, last, prior_install>>

\* lines 126-127: fails as well when the file is no longer there
ConcMakeExecutable(r) ==
    /\ runs.of[r].pc = "chmod"
    /\ \E mx \in BOOLEAN :
        /\ disk' = MakeFileExecutable(disk, RunVersionDir, mx)
        /\ Step(r, IF mx /\ PathExists(disk, RunBinaryPath, platform)
                   THEN "cleanup" ELSE "rollback",
                "none", None, None)
    /\ UNCHANGED <<binary_cache, platform, arch, last, prior_install>>

\* lines 132-135
ConcRollback(r) ==
    /\ runs.of[r].pc = "rollback"
    /\ \E undeletable \in SUBSET ({RunVersionDir} \cap Entries(disk)) :
        disk' = RemoveDirAll(disk, RunVersionDir, undeletable)
    /\ Step(r, "done", "err", None, None)
    /\ UNCHANGED <<binary_cache, platform, arch, last, prior_install>>

\* lines 137-154
ConcCleanup(r) ==
    /\ runs.of[r].pc = "cleanup"
    /\ \E undeletable \in SUBSET CleanupTargets(disk, RunVersionDir) :
        disk' = CleanupStale(disk, RunVersionDir, undeletable)
    /\ Step(r, "done", "ok", Some(RunBinaryPath), RecordInstalled(None, RunBinaryPath))
    /\ UNCHANGED <<binary_cache, platform, arch, last, prior_install>>

NextConc ==
    \E r \in Runs :
        \/ ConcCheck(r)
        \/ ConcDownload(r)
        \/ ConcMakeExecutable(r)
        \/ ConcRollback(r)
        \/ ConcCleanup(r)

SpecConc == InitConc /\ [][NextConc]_vars

----------------------------------------------------------------------------
(* Properties.  They read the inputs of the call from the call record and   *)
(* never through the operators that model the code.                         *)
IsCommand == last.op = "language_server_command"
Ran(tier) == IsCommand /\ last.out.tier = tier
ReturnedOk == IsSome(last.out.binary)
Returned == Unwrap(last.out.binary)
Events == last.out.events
Rel == Unwrap(last.release)

\* the path and argument list the settings of the call configure
LookupPath ==
    IF last.lookup = None THEN None
    ELSE IF Unwrap(last.lookup).binary = None THEN None
    ELSE Unwrap(Unwrap(last.lookup).binary).path
LookupArgs ==
    IF last.lookup = None THEN None
    ELSE IF Unwrap(last.lookup).binary = None THEN None
    ELSE Unwrap(Unwrap(last.lookup).binary).arguments

\* Path::exists() of a binary path, read off the disk directly
OnDisk(d, path) ==
    \E v \in Versions :
        /\ path = "harper-ls-" \o v \o (IF platform = "Windows" THEN "/harper-ls.exe"
                                                               ELSE "/harper-ls")
        /\ d["harper-ls-" \o v] \in {"binary", "exec"}

CacheWasUsable == IsSome(last.cache0) /\ OnDisk(last.disk0, Unwrap(last.cache0))

\* C1: a call whose settings give an explicit binary path returns exactly
\* that path, the configured argument list and the workspace shell
\* environment, whatever the PATH lookup and the cache hold; the installer is
\* not entered, no status is emitted and no release query is made.
C1_ConfiguredPathWins ==
    (IsCommand /\ IsSome(LookupPath)) =>
        /\ last.out.tier = "config"
        /\ last.out.binary =
              Some([path |-> Unwrap(LookupPath), args |-> LookupArgs,
                    env |-> Some(last.shell_env)])
        /\ last.out.err = ""
        /\ Events = <<>>

\* a configured path is chosen while PATH has a match and the cache holds an
\* existing installed binary
C1_Witness ==
    /\ IsCommand /\ IsSome(LookupPath) /\ IsSome(LookupArgs)
    /\ IsSome(last.which) /\ CacheWasUsable
    /\ ReturnedOk /\ Returned.path = Unwrap(LookupPath)

\* C2: an install_binary run on the X86 architecture returns the 'not
\* supported' error without having issued the release query or a download.
C2_X86FailsBeforeNetwork ==
    (Ran("install") /\ arch = "X86") =>
        /\ last.out.err = "x86 architecture is not supported"
        /\ ~Has(Events, "latest_github_release")
        /\ ~Has(Events, "download_file")

\* C3: when install_binary entered the download branch and returns an error,
\* the version-scoped directory does not exist on disk at that moment.
C3_RollbackLeavesNoDirectory ==
    (Ran("install") /\ Has(Events, "download_file") /\ ~ReturnedOk) =>
        disk["harper-ls-" \o Rel.version] = "absent"

Left == {e \in DOMAIN disk : disk[e] # "absent"}
Prior == Unwrap(last.prior0)

\* C4 as stated, in the case it names: after a successful fresh install of
\* V2 that follows a successful install of V1, the install root contains V2's
\* directory and no other entry (at most one version-scoped directory).
C4_OnlyNewDirAfterFreshInstall ==
    (/\ Ran("install") /\ ReturnedOk /\ Has(Events, "download_file")
     /\ IsSome(last.prior0) /\ Prior.untouched
     /\ Prior.release.version # Rel.version)
    =>
        /\ Left = {"harper-ls-" \o Rel.version}
        /\ Cardinality(Left) <= 1

\* C4 as amended: after a success through the download branch the install
\* root holds the new version's directory and, besides it, exactly the
\* entries whose deletion failed in that run's cleanup, so with no failing
\* deletion it holds the new directory and nothing else; a success through
\* the skip branch deletes nothing.
C4_CleanupBestEffort ==
    (Ran("install") /\ ReturnedOk) =>
        LET vd == "harper-ls-" \o Rel.version IN
        IF Has(Events, "download_file")
        THEN /\ disk[vd] = "exec"
             /\ Left \ {vd} = last.out.failed
             /\ \A e \in last.out.failed : disk[e] = last.disk0[e]
             /\ (last.out.failed = {} => Left = {vd})
        ELSE disk = last.disk0 /\ last.out.attempted = {}

\* a fresh install of V2 after a successful install of V1 that is still on
\* disk leaves V2's directory alone
C4_Witness ==
    /\ Ran("install") /\ ReturnedOk /\ Has(Events, "download_file")
    /\ IsSome(last.prior0) /\ Prior.untouched
    /\ Prior.release.version # Rel.version
    /\ last.disk0["harper-ls-" \o Prior.release.version] = "exec"
    /\ Left = {"harper-ls-" \o Rel.version}

\* C5: an install_binary run for the same release as the preceding
\* successful run, with the disk untouched in between, downloads, extracts
\* and deletes nothing, emits no Downloading status and returns the same path.
C5_SecondInstallIsNoOp ==
    (/\ Ran("install")
     /\ IsSome(last.prior0) /\ Prior.untouched
     /\ last.release = Some(Prior.release))
    =>
        /\ ~Has(Events, "Downloading")
        /\ ~Has(Events, "download_file")
        /\ ~Has(Events, "make_file_executable")
        /\ ~Has(Events, "remove_dir_all")
        /\ ~Has(Events, "read_dir")
        /\ last.out.attempted = {}
        /\ disk = last.disk0
        /\ ReturnedOk /\ Returned.path = Prior.path

\* a second run for the release of the preceding successful run returned the
\* same path
C5_Witness ==
    /\ Ran("install")
    /\ IsSome(last.prior0) /\ Prior.untouched
    /\ last.release = Some(Prior.release)
    /\ ReturnedOk /\ Returned.path = Prior.path

\* C6: after install_binary has succeeded on this extension instance, a call
\* with no configured path, no PATH match and the installed binary still on
\* disk returns the installed path with args and env unset, without status,
\* release query or download.
C6_CacheReuse ==
    (/\ IsCommand
     /\ IsSome(last.prior0) /\ Prior.same_instance
     /\ LookupPath = None /\ last.which = None
     /\ OnDisk(last.disk0, Prior.path))
    =>
        /\ last.out.tier = "cache"
        /\ last.out.binary = Some([path |-> Prior.path, args |-> None, env |-> None])
        /\ last.out.err = ""
        /\ Events = <<>>
        /\ disk = last.disk0

C6_Witness ==
    /\ IsCommand
    /\ IsSome(last.prior0) /\ Prior.same_instance
    /\ LookupPath = None /\ last.which = None
    /\ OnDisk(last.disk0, Prior.path)
    /\ ReturnedOk /\ Returned.path = Prior.path

\* C7: below the configured path the order is PATH, cache, installer: a PATH
\* match is returned with args unset and the shell environment whatever the
\* cache holds; the cached path is returned only with no configured path, no
\* PATH match and the cached path on disk; install_binary is entered only
\* with no configured path, no PATH match and the cache empty or stale.
C7_ResolutionOrder ==
    IsCommand =>
        /\ (LookupPath = None /\ IsSome(last.which)) =>
              /\ last.out.tier = "path"
              /\ last.out.binary =
                    Some([path |-> Unwrap(last.which), args |-> None,
                          env |-> Some(last.shell_env)])
              /\ Events = <<>>
        /\ last.out.tier = "cache" <=>
              (LookupPath = None /\ last.which = None /\ CacheWasUsable)
        /\ last.out.tier = "cache" =>
              last.out.binary =
                  Some([path |-> Unwrap(last.cache0), args |-> None, env |-> None])
        /\ last.out.tier = "install" <=>
              (LookupPath = None /\ last.which = None /\ ~CacheWasUsable)

\* a PATH match is returned although the cache holds an installed binary
C7_Witness ==
    /\ Ran("path") /\ LookupPath = None /\ CacheWasUsable
    /\ ReturnedOk /\ Returned.path = Unwrap(last.which)

InstallerErrors ==
    {"Failed to fetch latest release", "x86 architecture is not supported",
     "Failed to download Harper binary", "Failed to make binary executable"}
    \cup {"No compatible Harper binary found for " \o a \o "-" \o o :
            a \in {"aarch64", "x86_64"},
            o \in {"apple-darwin", "unknown-linux-gnu", "pc-windows-msvc"}}

\* C8: when the settings lookup fails or gives no binary section or no
\* binary path, get_binary does not fail for that reason and goes on to the
\* PATH tier as if nothing were configured: the outcome is the one the same
\* call has with empty settings.
C8_ConfigurationErrorsFallThrough ==
    (IsCommand /\ LookupPath = None) =>
        /\ last.out.tier \in {"path", "cache", "install"}
        /\ IsSome(last.which) => (last.out.tier = "path" /\ ReturnedOk)
        /\ ~ReturnedOk => (last.out.tier = "install" /\ last.out.err \in InstallerErrors)
        /\ last.out =
              GetBinary(last.cache0, last.disk0, platform, arch,
                        Some([binary |-> None, initialization_options |-> None,
                              settings |-> None]),
                        last.which, last.shell_env, last.release, last.dl, last.mx,
                        last.out.failed)

\* a failed settings lookup falls through to a successful install
C8_Witness ==
    /\ IsCommand /\ last.lookup = None
    /\ last.out.tier = "install" /\ ReturnedOk

\* C9: language_server_command returns the resolved path as the command,
\* the explicit argument list when there is one and ["--stdio"] otherwise,
\* an empty environment for a cached or installed binary and the shell
\* environment for a configured or PATH binary; on x86_64 Linux with release
\* v1.2.0 an install gives the command harper-ls-v1.2.0/harper-ls.
C9_LaunchContract ==
    IsCommand =>
        IF ReturnedOk
        THEN /\ IsSome(last.command)
             /\ Unwrap(last.command).command = Returned.path
             /\ Unwrap(last.command).args =
                   (IF last.out.tier = "config" /\ IsSome(LookupArgs)
                    THEN Unwrap(LookupArgs) ELSE <<"--stdio">>)
             /\ Unwrap(last.command).env =
                   (IF last.out.tier \in {"cache", "install"}
                    THEN <<>> ELSE last.shell_env)
             /\ (/\ last.out.tier = "install"
                 /\ platform = "Linux" /\ arch = "X8664"
                 /\ Rel.version = "v1.2.0")
                => Unwrap(last.command) =
                      [command |-> "harper-ls-v1.2.0/harper-ls",
                       args |-> <<"--stdio">>, env |-> <<>>]
        ELSE last.command = None

\* the scenario of the specification: nothing configured, no PATH match, no
\* cache, x86_64 Linux, release v1.2.0
C9_Witness ==
    /\ Ran("install") /\ ReturnedOk
    /\ last.lookup = None /\ last.which = None /\ last.cache0 = None
    /\ platform = "Linux" /\ arch = "X8664" /\ Rel.version = "v1.2.0"
    /\ Unwrap(last.command).command = "harper-ls-v1.2.0/harper-ls"

\* C10 as stated: the workspace configuration is the host's settings when
\* present and the default {"harper-ls": {}} otherwise, for every outcome of
\* the settings lookup; the initialization options are forwarded unchanged;
\* neither handler returns an error.
C10_DefaultForEveryLookup ==
    /\ last.op = "language_server_workspace_configuration" =>
          last.value =
              Some(IF last.lookup # None /\ IsSome(Unwrap(last.lookup).settings)
                   THEN Unwrap(last.lookup).settings
                   ELSE Some("harper-ls" :> <<>>))
    /\ last.op = "language_server_initialization_options" =>
          last.value =
              Some(IF last.lookup = None THEN None
                   ELSE Unwrap(last.lookup).initialization_options)

\* C10 as amended: when the settings lookup succeeds the workspace
\* configuration is the host's settings when present and the default
\* {"harper-ls": {}} otherwise; when the lookup fails it is absent (None);
\* the initialization options are forwarded unchanged (absent when the
\* lookup fails); neither handler returns an error.
C10_DefaultWhenLookupSucceeds ==
    /\ last.op = "language_server_workspace_configuration" =>
          last.value =
              Some(IF last.lookup = None THEN None
                   ELSE IF IsSome(Unwrap(last.lookup).settings)
                   THEN Unwrap(last.lookup).settings
                   ELSE Some("harper-ls" :> <<>>))
    /\ last.op = "language_server_initialization_options" =>
          last.value =
              Some(IF last.lookup = None THEN None
                   ELSE Unwrap(last.lookup).initialization_options)

\* the default is returned for a successful lookup without settings
C10_Witness ==
    /\ last.op = "language_server_workspace_configuration"
    /\ last.lookup # None /\ Unwrap(last.lookup).settings = None
    /\ last.value = Some(Some("harper-ls" :> <<>>))

\* C11: whenever install_binary sets binary_cache, the path it stores is an
\* executable file at that moment, the skip branch included.
C11_CachedPathExecutable ==
    (Ran("install") /\ ReturnedOk) =>
        /\ binary_cache = Some(Returned.path)
        /\ disk["harper-ls-" \o Rel.version] = "exec"

\* C12: when two install_binary runs for the same release version have both
\* finished, every run that returned success returned a path that exists on
\* disk.
C12_BothRunsValid ==
    (\A r \in Runs : runs.of[r].pc = "done") =>
        \A r \in Runs :
            runs.of[r].result = "ok" => OnDisk(disk, Unwrap(runs.of[r].path))

\* what the call changed on disk, and the names this platform calls for
Changed == {e \in DOMAIN disk : disk[e] # last.disk0[e]}
Present(d) == {e \in DOMAIN d : d[e] # "absent"}
ExpectedTriple ==
    CASE arch = "Aarch64" /\ platform = "Mac" -> "aarch64-apple-darwin"
      [] arch = "Aarch64" /\ platform = "Linux" -> "aarch64-unknown-linux-gnu"
      [] arch = "Aarch64" /\ platform = "Windows" -> "aarch64-pc-windows-msvc"
      [] arch = "X8664" /\ platform = "Mac" -> "x86_64-apple-darwin"
      [] arch = "X8664" /\ platform = "Linux" -> "x86_64-unknown-linux-gnu"
      [] arch = "X8664" /\ platform = "Windows" -> "x86_64-pc-windows-msvc"
      [] OTHER -> "unsupported"
ExpectedAsset ==
    "harper-ls-" \o ExpectedTriple \o (IF platform = "Windows" THEN ".zip" ELSE ".tar.gz")
ExpectedDir == "harper-ls-" \o Rel.version
ExpectedPath ==
    ExpectedDir \o (IF platform = "Windows" THEN "/harper-ls.exe" ELSE "/harper-ls")
SelectionReached == Ran("install") /\ IsSome(last.release) /\ arch # "X86"

\* C13: sibling entries of the install root are deleted (the read_dir loop
\* runs, or an entry other than the run's own version directory changes) only
\* in an install_binary run that returns success after its download, the
\* extraction and make_file_executable succeeded in that run: not in the
\* skip branch, not in a failing run, not in the configuration, PATH or cache
\* tier, and in no other handler.
C13_CleanupOnlyAfterFullInstall ==
    (/\ last.op # "none"
     /\ \/ Has(Events, "read_dir")
        \/ \E e \in Changed : ~(IsSome(last.release) /\ e = ExpectedDir))
    =>
        /\ Ran("install") /\ ReturnedOk
        /\ ~OnDisk(last.disk0, ExpectedPath)
        /\ Has(Events, "download_file") /\ last.dl = "ok"
        /\ Has(Events, "make_file_executable") /\ last.mx
        /\ Events[Len(Events)] = "read_dir"

\* a fresh install removes a directory an earlier version left
C13_Witness ==
    /\ Ran("install") /\ ReturnedOk /\ Has(Events, "read_dir")
    /\ \E e \in DOMAIN disk :
        e # ExpectedDir /\ last.disk0[e] # "absent" /\ disk[e] = "absent"

\* C14: with the release fetched on a supported architecture, the asset
\* looked for is the one named harper-ls-<arch>-<os>.<tar.gz | zip on
\* Windows>; the run goes on to the existence check exactly when the release
\* has an asset of exactly that name, and otherwise returns the 'No
\* compatible Harper binary' error with no Downloading status, no download,
\* the disk and binary_cache as they were.  The outcome is a function of the
\* platform and the asset list.
C14_ExactAssetOrFail ==
    SelectionReached =>
        IF ExpectedAsset \in Rel.assets
        THEN ReturnedOk \/ Has(Events, "download_file")
        ELSE /\ ~ReturnedOk
             /\ last.out.err = "No compatible Harper binary found for " \o ExpectedTriple
             /\ ~Has(Events, "Downloading")
             /\ ~Has(Events, "download_file")
             /\ disk = last.disk0
             /\ binary_cache = last.cache0

\* on Windows a release that offers the x86_64 build as a tar.gz only is
\* refused, with an earlier install on disk
C14_Witness ==
    /\ SelectionReached /\ platform = "Windows" /\ arch = "X8664"
    /\ "harper-ls-x86_64-pc-windows-msvc.tar.gz" \in Rel.assets
    /\ ExpectedAsset \notin Rel.assets
    /\ ~ReturnedOk
    /\ Present(last.disk0) # {}

Count(events, e) == Cardinality({i \in DOMAIN events : events[i] = e})

\* C15: every install_binary run starts with the CheckingForUpdate status
\* followed by the release query; Downloading is emitted at most once, after
\* CheckingForUpdate and immediately before download_file; every
\* download_file is immediately preceded by Downloading; a run that fails
\* before the download or takes the skip branch emits no Downloading.
C15_StatusOrdering ==
    Ran("install") =>
        /\ Len(Events) >= 2
        /\ Events[1] = "CheckingForUpdate"
        /\ Events[2] = "latest_github_release"
        /\ Count(Events, "CheckingForUpdate") = 1
        /\ Count(Events, "Downloading") <= 1
        /\ \A i \in DOMAIN Events :
            /\ Events[i] = "Downloading" =>
                  i > 1 /\ i < Len(Events) /\ Events[i + 1] = "download_file"
            /\ Events[i] = "download_file" =>
                  i > 1 /\ Events[i - 1] = "Downloading"
        /\ (\/ last.release = None
            \/ arch = "X86"
            \/ ExpectedAsset \notin Rel.assets
            \/ OnDisk(last.disk0, ExpectedPath))
           => ~Has(Events, "Downloading")

\* a run that downloads and succeeds
C15_Witness ==
    /\ Ran("install") /\ ReturnedOk
    /\ Has(Events, "Downloading") /\ Has(Events, "download_file")

\* C16: binary_cache is empty from the creation of the instance until an
\* install_binary run of that instance returns success, and from then on
\* holds the path of the latest such run; a handler changes it only as a
\* successful install_binary run that stores the returned path, a failing
\* run leaves it as it was, and no handler empties a set cache.
C16_CacheLifecycle ==
    /\ prior_install = None => binary_cache = None
    /\ IsSome(prior_install) =>
          binary_cache = IF Unwrap(prior_install).same_instance
                         THEN Some(Unwrap(prior_install).path) ELSE None
    /\ last.op # "none" =>
        /\ IsSome(last.cache0) => IsSome(binary_cache)
        /\ binary_cache # last.cache0 =>
              Ran("install") /\ ReturnedOk /\ binary_cache = Some(Returned.path)
        /\ (Ran("install") /\ ~ReturnedOk) => binary_cache = last.cache0

\* an install_binary run fails in an instance whose cache is set
C16_Witness ==
    /\ Ran("install") /\ ~ReturnedOk /\ Has(Events, "download_file")
    /\ IsSome(last.cache0) /\ binary_cache = last.cache0

\* C17: a get_binary call answered by the configuration tier, the PATH tier
\* or the cache tier leaves binary_cache and the install root as they were
\* and emits no status.
C17_ResolverTiersAreReadOnly ==
    (IsCommand /\ (IsSome(LookupPath) \/ IsSome(last.which) \/ CacheWasUsable)) =>
        /\ last.out.tier \in {"config", "path", "cache"}
        /\ binary_cache = last.cache0
        /\ disk = last.disk0
        /\ Events = <<>>

\* the PATH tier answers while the cache names a path that is gone and the
\* install root is not empty
C17_Witness ==
    /\ Ran("path") /\ LookupPath = None
    /\ IsSome(last.cache0) /\ ~CacheWasUsable
    /\ Present(last.disk0) # {}

\* C18: between calls every version directory on disk holds its binary in
\* executable form, and a path returned by the installer exists on disk when
\* it is returned.
C18_NoPartialDirectories ==
    /\ last = Idle => \A e \in DOMAIN disk : disk[e] \in {"absent", "exec"}
    /\ (Ran("install") /\ ReturnedOk) => OnDisk(disk, Returned.path)

\* C19: when install_binary returns success, binary_cache is the returned
\* path, the path is harper-ls-<version>/harper-ls (harper-ls.exe exactly on
\* Windows), it exists, and the cleanup of the run attempted every other
\* entry of the install root and not the directory harper-ls-<version>.
C19_InstalledPathKept ==
    (Ran("install") /\ ReturnedOk) =>
        /\ binary_cache = Some(Returned.path)
        /\ Returned.path = ExpectedPath
        /\ disk[ExpectedDir] # "absent"
        /\ OnDisk(disk, Returned.path)
        /\ ExpectedDir \notin last.out.attempted
        /\ Has(Events, "read_dir") =>
              last.out.attempted = Present(last.disk0) \ {ExpectedDir}

\* a Windows install whose cleanup had other entries to delete
C19_Witness ==
    /\ Ran("install") /\ ReturnedOk /\ platform = "Windows"
    /\ Has(Events, "read_dir") /\ last.out.attempted # {}
    /\ binary_cache = Some(ExpectedPath)
====
